---------------------------- MODULE Spec2Model ----------------------------
(***************************************************************************)
(* A model of the tree-walking evaluator of simple-rustc                   *)
(* (src/src/ast.rs, src/src/interpreter.rs): the syntax tree and the       *)
(* runtime values, the Context (a stack of scopes) with its five methods,  *)
(* and the recursive evaluator eval_expr / eval_block.                     *)
(*                                                                         *)
(* A call of the driver is one action: the whole call, with every nested   *)
(* call it makes, is computed by the operator of the same name as the      *)
(* Rust function.  The variables op, arg, pre and res record the last      *)
(* call (what was called, with what, on which context, and what it         *)
(* returned), so that a property of a call is a property of a state.       *)
(***************************************************************************)
EXTENDS Integers, Sequences, FiniteSets, TLC

VARIABLES
    context,          \* the Context: Vec<Scope>, innermost scope last
    overflow_checks,  \* the build: TRUE debug (overflow panics), FALSE release (wraps)
    op,               \* the function the driver called last ("init": none yet)
    arg,              \* the arguments of that call
    pre,              \* the Context when that call started
    res               \* what that call returned (or that it panicked)

vars == <<context, overflow_checks, op, arg, pre, res>>

----------------------------------------------------------------------------
(* ast.rs: values, operators, types, syntax tree                           *)

Num(n)  == [tag |-> "Num", v |-> n]
Bool(b) == [tag |-> "Bool", v |-> b]
Var(s)  == [tag |-> "Var", v |-> s]

MathOp(t) == <<"MathOp", t>>
BoolOp(t) == <<"BoolOp", t>>
RelOp(t)  == <<"RelOp", t>>
VarOp(t)  == <<"VarOp", t>>

MathToken == {"Minus", "Plus", "Multiply", "Division", "Modulo"}
BoolToken == {"And", "Or", "Not"}
RelToken  == {"Leq", "Geq", "Equal", "Neq"}
VarToken  == {"Assign", "PlusEq", "MinEq", "MulEq"}

Op == {MathOp(t) : t \in MathToken} \cup {BoolOp(t) : t \in BoolToken}
        \cup {RelOp(t) : t \in RelToken} \cup {VarOp(t) : t \in VarToken}

Type == {"Int32", "Bool", "Void"}

ENum(n)          == [e |-> "Num", n |-> n]
EBool(b)         == [e |-> "Bool", b |-> b]
EVar(s)          == [e |-> "Var", s |-> s]
EBinOp(l, o, r)  == [e |-> "BinOp", l |-> l, op |-> o, r |-> r]
ELet(v, t, x)    == [e |-> "Let", var |-> v, ty |-> t, expr |-> x]
EVarOp(v, o, x)  == [e |-> "VarOp", var |-> v, op |-> o, expr |-> x]
EIf(c, b)        == [e |-> "If", cond |-> c, block |-> b]
EIfElse(c, b)    == [e |-> "IfElse", cond |-> c, block |-> b]
EWhile(c, b)     == [e |-> "While", cond |-> c, block |-> b]
EReturn(x)       == [e |-> "Return", expr |-> x]

----------------------------------------------------------------------------
(* interpreter.rs: results                                                 *)

Ok(v)        == [t |-> "Ok", v |-> v]
Err(k, m)    == [t |-> "Err", kind |-> k, msg |-> m]
Panic(m)     == [t |-> "Panic", msg |-> m]
Unit         == [t |-> "Ok", v |-> [tag |-> "Unit", v |-> 0]]

EvalErr == {"NotFound", "NotImplemented", "TypeMismatch", "WrongOp", "WrongType"}

IsOk(r)     == r.t = "Ok"
IsErr(r)    == r.t = "Err"
IsPanic(r)  == r.t = "Panic"
Failed(r, k) == r.t = "Err" /\ r.kind = k

\* What a function that mutates the Context hands back: its result and the
\* Context as it left it.
Out(r, c) == [res |-> r, ctx |-> c]

----------------------------------------------------------------------------
(* interpreter.rs: Scope, Context and the ContextMethods                   *)

EmptyScope == [k \in {} |-> Num(0)]

\* HashMap::insert
ScopeInsert(scope, key, val) ==
    [k \in DOMAIN scope \cup {key} |-> IF k = key THEN val ELSE scope[k]]

\* The scopes of ctx that bind key, and the innermost of them: what
\* iter().rev() meets first.
Binding(ctx, key) == {i \in 1..Len(ctx) : key \in DOMAIN ctx[i]}
Innermost(ctx, key) ==
    CHOOSE i \in Binding(ctx, key) : \A j \in Binding(ctx, key) : j <= i

\* update_var with the bug of declaring: the value goes into the innermost
\* frame whether or not a frame binds the key
update_var_create(ctx, key, val) ==
    IF Len(ctx) = 0
    THEN Out(Err("NotFound", "Value not found in context."), ctx)
    ELSE Out(Ok(val), [ctx EXCEPT ![Len(ctx)] = ScopeInsert(@, key, val)])

update_var(ctx, key, val) ==
    IF Binding(ctx, key) = {}
    THEN Out(Err("NotFound", "Value not found in context."), ctx)
    ELSE Out(Ok(val),
             [ctx EXCEPT ![Innermost(ctx, key)] = ScopeInsert(@, key, val)])

drop_current_scope(ctx) ==
    IF Len(ctx) = 0 THEN ctx ELSE SubSeq(ctx, 1, Len(ctx) - 1)

\* get_val with the bug of searching from the outermost frame inward
get_val_outermost(ctx, key) ==
    IF Binding(ctx, key) = {}
    THEN Err("NotFound", "Key not found in context scopes")
    ELSE Ok(ctx[CHOOSE i \in Binding(ctx, key) :
                    \A j \in Binding(ctx, key) : i <= j][key])

get_val(ctx, key) ==
    IF Binding(ctx, key) = {}
    THEN Err("NotFound", "Key not found in context scopes")
    ELSE Ok(ctx[Innermost(ctx, key)][key])

\* insert_to_current_scope with the bug of writing through: every frame that
\* binds the key is overwritten too
insert_to_current_scope_all(ctx, key, val) ==
    IF Len(ctx) = 0
    THEN Out(Panic("There are no scopes in the context."), ctx)
    ELSE Out(Unit, [i \in 1..Len(ctx) |->
                       IF i = Len(ctx) \/ key \in DOMAIN ctx[i]
                       THEN ScopeInsert(ctx[i], key, val) ELSE ctx[i]])

insert_to_current_scope(ctx, key, val) ==
    IF Len(ctx) = 0
    THEN Out(Panic("There are no scopes in the context."), ctx)
    ELSE Out(Unit, [ctx EXCEPT ![Len(ctx)] = ScopeInsert(@, key, val)])

new_scope(ctx) == Append(ctx, EmptyScope)

----------------------------------------------------------------------------
(* Rust's i32 arithmetic.  TLC's integers are 32 bits wide themselves, so  *)
(* a sum or product is never formed before it is known to fit.             *)

MaxI32 == 2147483647
MinI32 == -MaxI32 - 1

AddOverflows(a, b) == (b > 0 /\ a > MaxI32 - b) \/ (b < 0 /\ a < MinI32 - b)
SubOverflows(a, b) == (b < 0 /\ a > MaxI32 + b) \/ (b > 0 /\ a < MinI32 + b)

\* i32::wrapping_add, wrapping_sub: the sum modulo 2^32, in MinI32..MaxI32
WrapAdd(a, b) ==
    IF b > 0 /\ a > MaxI32 - b THEN (a - MaxI32 - 1) + (b - MaxI32 - 1)
    ELSE IF b < 0 /\ a < MinI32 - b THEN (a + MaxI32 + 1) + (b + MaxI32 + 1)
    ELSE a + b

WrapSub(a, b) ==
    IF b < 0 /\ a > MaxI32 + b THEN (a - MaxI32 - 1) - (b + MaxI32 + 1)
    ELSE IF b > 0 /\ a < MinI32 + b THEN (a + MaxI32 + 1) - (b - MaxI32 - 1)
    ELSE a - b

Abs(a) == IF a < 0 THEN -a ELSE a

\* |a| * |b| = 2^31, the one product of magnitudes above MaxI32 that still
\* fits when the signs differ
IsTwoTo31(a, b) ==
    /\ Abs(b) >= 2
    /\ 1073741824 % Abs(b) = 0
    /\ Abs(a) = 2 * (1073741824 \div Abs(b))

MulOverflows(a, b) ==
    IF a = 0 \/ b = 0 THEN FALSE
    ELSE IF a = MinI32 THEN b # 1
    ELSE IF b = MinI32 THEN a # 1
    ELSE IF Abs(a) <= MaxI32 \div Abs(b) THEN FALSE
    ELSE IF (a < 0) = (b < 0) THEN TRUE
    ELSE ~IsTwoTo31(a, b)

\* a * n modulo 2^32 for n >= 0, by doubling
RECURSIVE WrapMulNat(_, _)
WrapMulNat(a, n) ==
    IF n = 0 THEN 0
    ELSE LET h == WrapMulNat(WrapAdd(a, a), n \div 2)
         IN  IF n % 2 = 1 THEN WrapAdd(h, a) ELSE h

\* i32::wrapping_mul
WrapMul(a, b) ==
    IF b >= 0 THEN WrapMulNat(a, b)
    ELSE IF b = MinI32 THEN (IF a % 2 = 1 THEN MinI32 ELSE 0)
    ELSE WrapSub(0, WrapMulNat(a, -b))

\* Rust's / and % on i32 for b # 0 and (a, b) # (MinI32, -1): the quotient
\* truncated toward zero and the remainder with the sign of a
TruncDiv(a, b) ==
    IF b = MinI32 THEN (IF a = MinI32 THEN 1 ELSE 0)
    ELSE LET m  == Abs(b)
             fq == a \div m
             tq == IF a < 0 /\ a % m # 0 THEN fq + 1 ELSE fq
         IN  IF b < 0 THEN -tq ELSE tq

TruncRem(a, b) ==
    IF b = MinI32 THEN (IF a = MinI32 THEN 0 ELSE a)
    ELSE LET m  == Abs(b)
             fq == a \div m
             tq == IF a < 0 /\ a % m # 0 THEN fq + 1 ELSE fq
         IN  a - tq * m

\* l + r, l - r, l * r as rustc compiles them: with overflow checks (a debug
\* build) an overflow panics, without them (a release build) it wraps.
I32Add(l, r) ==
    IF AddOverflows(l, r) /\ overflow_checks
    THEN Panic("attempt to add with overflow")
    ELSE Ok(Num(WrapAdd(l, r)))

I32Sub(l, r) ==
    IF SubOverflows(l, r) /\ overflow_checks
    THEN Panic("attempt to subtract with overflow")
    ELSE Ok(Num(WrapSub(l, r)))

I32Mul(l, r) ==
    IF MulOverflows(l, r) /\ overflow_checks
    THEN Panic("attempt to multiply with overflow")
    ELSE Ok(Num(WrapMul(l, r)))

\* l / r and l % r: a zero divisor and MinI32 / -1 panic in every build.
I32Div(l, r) ==
    IF r = 0 THEN Panic("attempt to divide by zero")
    ELSE IF l = MinI32 /\ r = -1 THEN Panic("attempt to divide with overflow")
    ELSE Ok(Num(TruncDiv(l, r)))

I32Rem(l, r) ==
    IF r = 0
    THEN Panic("attempt to calculate the remainder with a divisor of zero")
    ELSE IF l = MinI32 /\ r = -1
    THEN Panic("attempt to calculate the remainder with overflow")
    ELSE Ok(Num(TruncRem(l, r)))

----------------------------------------------------------------------------
(* interpreter.rs: the evaluator                                           *)

\* eval_i32_expr with the bug of treating and/or as operators on integers
\* (nonzero is true), as C does
eval_i32_expr_c(l, o, r) ==
    CASE o = MathOp("Division") -> I32Div(l, r)
      [] o = MathOp("Multiply") -> I32Mul(l, r)
      [] o = MathOp("Plus")     -> I32Add(l, r)
      [] o = MathOp("Minus")    -> I32Sub(l, r)
      [] o = MathOp("Modulo")   -> I32Rem(l, r)
      [] o = RelOp("Equal")     -> Ok(Bool(l = r))
      [] o = RelOp("Geq")       -> Ok(Bool(l > r))
      [] o = RelOp("Leq")       -> Ok(Bool(l < r))
      [] o = RelOp("Neq")       -> Ok(Bool(l # r))
      [] o = BoolOp("And")      -> Ok(Bool(l # 0 /\ r # 0))
      [] o = BoolOp("Or")       -> Ok(Bool(l # 0 \/ r # 0))
      [] OTHER                  -> Err("WrongOp", "Not an i32 operator.")

eval_i32_expr(l, o, r) ==
    CASE o = MathOp("Division") -> I32Div(l, r)
      [] o = MathOp("Multiply") -> I32Mul(l, r)
      [] o = MathOp("Plus")     -> I32Add(l, r)
      [] o = MathOp("Minus")    -> I32Sub(l, r)
      [] o = MathOp("Modulo")   -> I32Rem(l, r)
      [] o = RelOp("Equal")     -> Ok(Bool(l = r))
      [] o = RelOp("Geq")       -> Ok(Bool(l > r))
      [] o = RelOp("Leq")       -> Ok(Bool(l < r))
      [] o = RelOp("Neq")       -> Ok(Bool(l # r))
      [] OTHER                  -> Err("WrongOp", "Not an i32 operator.")

\* bool's derived order: false < true
BoolLt(l, r) == ~l /\ r

eval_bool_expr(l, o, r) ==
    CASE o = BoolOp("And")  -> Ok(Bool(l /\ r))
      [] o = BoolOp("Or")   -> Ok(Bool(l \/ r))
      [] o = RelOp("Equal") -> Ok(Bool(l = r))
      [] o = RelOp("Geq")   -> Ok(Bool(BoolLt(r, l)))
      [] o = RelOp("Leq")   -> Ok(Bool(BoolLt(l, r)))
      [] o = RelOp("Neq")   -> Ok(Bool(l # r))
      [] OTHER              -> Err("WrongOp", "Not a boolean operator.")

\* String::from(Expr), i32::from(Value): the conversions panic on any other
\* variant
StringFromExpr(e) == IF e.e = "Var" THEN Ok(e.s) ELSE Panic("explicit panic")
I32FromValue(v)   == IF v.tag = "Num" THEN Ok(v.v) ELSE Panic("explicit panic")

RECURSIVE eval_expr(_, _)
RECURSIVE eval_bin_expr(_, _, _, _)
RECURSIVE assign_var(_, _, _)
RECURSIVE eval_if(_, _, _)
RECURSIVE eval_block(_, _)
RECURSIVE eval_block_loop(_, _, _, _)

\* eval_bin_expr with the bug of short-circuiting: the right operand of and
\* is skipped after a false left operand, that of or after a true one
eval_bin_expr_short(l, o, r, ctx) ==
    LET lo == eval_expr(l, ctx) IN
    IF ~IsOk(lo.res) THEN lo
    ELSE IF (o = BoolOp("And") /\ lo.res.v = Bool(FALSE))
              \/ (o = BoolOp("Or") /\ lo.res.v = Bool(TRUE))
    THEN lo
    ELSE LET ro == eval_expr(r, lo.ctx) IN
         IF ~IsOk(ro.res) THEN ro
         ELSE LET l_val == lo.res.v
                  r_val == ro.res.v
              IN  IF l_val.tag = "Num" /\ r_val.tag = "Num"
                  THEN Out(eval_i32_expr(l_val.v, o, r_val.v), ro.ctx)
                  ELSE IF l_val.tag = "Bool" /\ r_val.tag = "Bool"
                  THEN Out(eval_bool_expr(l_val.v, o, r_val.v), ro.ctx)
                  ELSE Out(Err("TypeMismatch",
                               "Can not evaluate an operation between a bool and an i32."),
                           ro.ctx)

eval_bin_expr(l, o, r, ctx) ==
    LET lo == eval_expr(l, ctx) IN
    IF ~IsOk(lo.res) THEN lo
    ELSE LET ro == eval_expr(r, lo.ctx) IN
         IF ~IsOk(ro.res) THEN ro
         ELSE LET l_val == lo.res.v
                  r_val == ro.res.v
              IN  IF l_val.tag = "Num" /\ r_val.tag = "Num"
                  THEN Out(eval_i32_expr(l_val.v, o, r_val.v), ro.ctx)
                  ELSE IF l_val.tag = "Bool" /\ r_val.tag = "Bool"
                  THEN Out(eval_bool_expr(l_val.v, o, r_val.v), ro.ctx)
                  ELSE Out(Err("TypeMismatch",
                               "Can not evaluate an operation between a bool and an i32."),
                           ro.ctx)

\* eval_var_op with the bug of storing the combined value in the innermost
\* frame instead of the frame the key was found in
eval_var_op_newest(key, o, new_val, ctx) ==
    LET found == get_val(ctx, key) IN
    IF ~IsOk(found) THEN Out(found, ctx)
    ELSE LET old_val == I32FromValue(found.v) IN
    IF ~IsOk(old_val) THEN Out(old_val, ctx)
    ELSE LET expr_val == I32FromValue(new_val) IN
    IF ~IsOk(expr_val) THEN Out(expr_val, ctx)
    ELSE LET combined ==
                 CASE o = VarOp("PlusEq") -> I32Add(old_val.v, expr_val.v)
                   [] o = VarOp("MinEq")  -> I32Sub(old_val.v, expr_val.v)
                   [] o = VarOp("MulEq")  -> I32Mul(old_val.v, expr_val.v)
                   [] OTHER -> Err("WrongOp", "Not a variable operator.")
         IN  IF ~IsOk(combined) THEN Out(combined, ctx)
             ELSE Out(combined,
                      [ctx EXCEPT ![Len(ctx)] = ScopeInsert(@, key, combined.v)])

eval_var_op(key, o, new_val, ctx) ==
    LET found == get_val(ctx, key) IN
    IF ~IsOk(found) THEN Out(found, ctx)
    ELSE LET old_val == I32FromValue(found.v) IN
    IF ~IsOk(old_val) THEN Out(old_val, ctx)
    ELSE LET expr_val == I32FromValue(new_val) IN
    IF ~IsOk(expr_val) THEN Out(expr_val, ctx)
    ELSE LET combined ==
                 CASE o = VarOp("PlusEq") -> I32Add(old_val.v, expr_val.v)
                   [] o = VarOp("MinEq")  -> I32Sub(old_val.v, expr_val.v)
                   [] o = VarOp("MulEq")  -> I32Mul(old_val.v, expr_val.v)
                   [] OTHER -> Err("WrongOp", "Not a variable operator.")
         IN  IF ~IsOk(combined) THEN Out(combined, ctx)
             ELSE update_var(ctx, key, combined.v)

\* assign_var with the bug of binding a name to the reference its
\* initializer is, not to the value the reference evaluates to
assign_var_ref(var, expr, ctx) ==
    LET id == StringFromExpr(var) IN
    IF ~IsOk(id) THEN Out(id, ctx)
    ELSE LET xo == IF expr.e = "Var" THEN Out(Ok(Var(expr.s)), ctx)
                   ELSE eval_expr(expr, ctx) IN
         IF ~IsOk(xo.res) THEN xo
         ELSE LET ins == insert_to_current_scope(xo.ctx, Var(id.v), xo.res.v)
              IN  IF ~IsOk(ins.res) THEN ins ELSE Out(xo.res, ins.ctx)

assign_var(var, expr, ctx) ==
    LET id == StringFromExpr(var) IN
    IF ~IsOk(id) THEN Out(id, ctx)
    ELSE LET xo == eval_expr(expr, ctx) IN
         IF ~IsOk(xo.res) THEN xo
         ELSE LET ins == insert_to_current_scope(xo.ctx, Var(id.v), xo.res.v)
              IN  IF ~IsOk(ins.res) THEN ins ELSE Out(xo.res, ins.ctx)

\* eval_if with the bug of running the block whenever the condition is a
\* Bool, false included
eval_if_always(e, block, ctx) ==
    LET co == eval_expr(e, ctx) IN
    IF ~IsOk(co.res) THEN co
    ELSE IF co.res.v.tag = "Bool" THEN eval_block(block, co.ctx)
    ELSE Out(Err("WrongType",
                 "Cannot evaluate condition. Not a boolean expression."),
             co.ctx)

\* eval_if with the bug of taking a nonzero integer for a true condition
eval_if_truthy(e, block, ctx) ==
    LET co == eval_expr(e, ctx) IN
    IF ~IsOk(co.res) THEN co
    ELSE IF co.res.v = Bool(TRUE) \/ (co.res.v.tag = "Num" /\ co.res.v.v # 0)
    THEN eval_block(block, co.ctx)
    ELSE IF co.res.v = Bool(FALSE) THEN Out(Ok(Bool(FALSE)), co.ctx)
    ELSE Out(Err("WrongType",
                 "Cannot evaluate condition. Not a boolean expression."),
             co.ctx)

eval_if(e, block, ctx) ==
    LET co == eval_expr(e, ctx) IN
    IF ~IsOk(co.res) THEN co
    ELSE IF co.res.v = Bool(TRUE) THEN eval_block(block, co.ctx)
    ELSE IF co.res.v = Bool(FALSE) THEN Out(Ok(Bool(FALSE)), co.ctx)
    ELSE Out(Err("WrongType",
                 "Cannot evaluate condition. Not a boolean expression."),
             co.ctx)

\* for e in block { res = eval_expr(e, context); }  from statement i on.  Only
\* a panic leaves the loop early: a failed statement's Err is overwritten by
\* the next statement's result.
eval_block_loop(block, i, r, ctx) ==
    IF i > Len(block) THEN Out(r, ctx)
    ELSE LET so == eval_expr(block[i], ctx) IN
         IF IsPanic(so.res) THEN so
         ELSE eval_block_loop(block, i + 1, so.res, so.ctx)

\* The scope pushed on entry is not dropped: drop_current_scope is
\* commented out in the source.
eval_block(block, ctx) ==
    eval_block_loop(block, 1, Err("NotFound", "No expressions found."),
                    new_scope(ctx))

\* eval_expr with the bug of a compound assignment reading its target before
\* it evaluates the right-hand expression
eval_expr_readfirst(e, ctx) ==
    CASE e.e = "Num"   -> Out(Ok(Num(e.n)), ctx)
      [] e.e = "Bool"  -> Out(Ok(Bool(e.b)), ctx)
      [] e.e = "Var"   -> Out(get_val(ctx, Var(e.s)), ctx)
      [] e.e = "BinOp" -> eval_bin_expr(e.l, e.op, e.r, ctx)
      [] e.e = "VarOp" ->
            LET key == StringFromExpr(e.var) IN
            IF ~IsOk(key) THEN Out(key, ctx)
            ELSE LET xo == eval_expr(e.expr, ctx) IN
                 IF ~IsOk(xo.res) THEN xo
                 ELSE IF e.op = VarOp("Assign")
                      THEN update_var(xo.ctx, Var(key.v), xo.res.v)
                      ELSE LET ro == eval_var_op(Var(key.v), e.op, xo.res.v, ctx) IN
                           IF IsOk(ro.res)
                           THEN update_var(xo.ctx, Var(key.v), ro.res.v)
                           ELSE Out(ro.res, xo.ctx)
      [] e.e = "Let"   -> assign_var(e.var, e.expr, ctx)
      [] e.e = "If"    -> eval_if(e.cond, e.block, ctx)
      [] OTHER         -> Out(Err("NotImplemented", ""), ctx)

eval_expr(e, ctx) ==
    CASE e.e = "Num"   -> Out(Ok(Num(e.n)), ctx)
      [] e.e = "Bool"  -> Out(Ok(Bool(e.b)), ctx)
      [] e.e = "Var"   -> Out(get_val(ctx, Var(e.s)), ctx)
      [] e.e = "BinOp" -> eval_bin_expr(e.l, e.op, e.r, ctx)
      [] e.e = "VarOp" ->
            LET key == StringFromExpr(e.var) IN
            IF ~IsOk(key) THEN Out(key, ctx)
            ELSE LET xo == eval_expr(e.expr, ctx) IN
                 IF ~IsOk(xo.res) THEN xo
                 ELSE IF e.op = VarOp("Assign")
                      THEN update_var(xo.ctx, Var(key.v), xo.res.v)
                      ELSE eval_var_op(Var(key.v), e.op, xo.res.v, xo.ctx)
      [] e.e = "Let"   -> assign_var(e.var, e.expr, ctx)
      [] e.e = "If"    -> eval_if(e.cond, e.block, ctx)
      [] OTHER         -> Out(Err("NotImplemented", ""), ctx)

----------------------------------------------------------------------------
(* The driver of the Context methods                                       *)

MaxFrames == 2

Names   == {"x", "y"}
Keys    == {Var(n) : n \in Names}
CtxVals == {Num(1), Bool(TRUE)}

NoArg == [key |-> Var(""), val |-> Num(0), e |-> ENum(0), block |-> <<>>]

\* A panic unwinds out of the driver: nothing is called after it.
Running == ~IsPanic(res)

InitCtx ==
    /\ context = <<>>
    /\ overflow_checks \in BOOLEAN
    /\ op = "init"
    /\ arg = NoArg
    /\ pre = <<>>
    /\ res = Unit

NewScope ==
    /\ Running
    /\ Len(context) < MaxFrames
    /\ context' = new_scope(context)
    /\ op' = "new_scope"
    /\ arg' = NoArg
    /\ pre' = context
    /\ res' = Unit
    /\ UNCHANGED overflow_checks

DropCurrentScope ==
    /\ Running
    /\ context' = drop_current_scope(context)
    /\ op' = "drop_current_scope"
    /\ arg' = NoArg
    /\ pre' = context
    /\ res' = Unit
    /\ UNCHANGED overflow_checks

InsertToCurrentScope(key, val) ==
    /\ Running
    /\ context' = insert_to_current_scope(context, key, val).ctx
    /\ res' = insert_to_current_scope(context, key, val).res
    /\ op' = "insert_to_current_scope"
    /\ arg' = [NoArg EXCEPT !.key = key, !.val = val]
    /\ pre' = context
    /\ UNCHANGED overflow_checks

GetVal(key) ==
    /\ Running
    /\ res' = get_val(context, key)
    /\ op' = "get_val"
    /\ arg' = [NoArg EXCEPT !.key = key]
    /\ pre' = context
    /\ UNCHANGED <<context, overflow_checks>>

UpdateVar(key, val) ==
    /\ Running
    /\ context' = update_var(context, key, val).ctx
    /\ res' = update_var(context, key, val).res
    /\ op' = "update_var"
    /\ arg' = [NoArg EXCEPT !.key = key, !.val = val]
    /\ pre' = context
    /\ UNCHANGED overflow_checks

\* eval_expr, called by the driver on syntax tree e
EvalExpr(e) ==
    /\ Running
    /\ context' = eval_expr(e, context).ctx
    /\ res' = eval_expr(e, context).res
    /\ op' = "eval_expr"
    /\ arg' = [NoArg EXCEPT !.e = e]
    /\ pre' = context
    /\ UNCHANGED overflow_checks

\* eval_block, called by the driver on the statements block
EvalBlock(block) ==
    /\ Running
    /\ context' = eval_block(block, context).ctx
    /\ res' = eval_block(block, context).res
    /\ op' = "eval_block"
    /\ arg' = [NoArg EXCEPT !.block = block]
    /\ pre' = context
    /\ UNCHANGED overflow_checks

\* The literals that evaluate to the values of CtxVals, and the nodes that
\* are one Context method each: a reference (get_val), a plain assignment
\* (update_var), a declaration (insert_to_current_scope).
CtxLits == {ENum(1), EBool(TRUE)}
CtxExprs ==
    {EVar(n) : n \in Names}
      \cup {EVarOp(EVar(n), VarOp("Assign"), l) : n \in Names, l \in CtxLits}
      \cup {ELet(EVar(n), "Int32", l) : n \in Names, l \in CtxLits}

NextCtx ==
    \/ NewScope
    \/ DropCurrentScope
    \/ \E k \in Keys, v \in CtxVals : InsertToCurrentScope(k, v)
    \/ \E k \in Keys : GetVal(k)
    \/ \E k \in Keys, v \in CtxVals : UpdateVar(k, v)
    \/ \E e \in CtxExprs : EvalExpr(e)

SpecCtx == InitCtx /\ [][NextCtx]_vars

----------------------------------------------------------------------------
(* The driver of the evaluator: it builds a Context, then calls eval_expr  *)
(* or eval_block once on a syntax tree.                                    *)

MaxInitFrames == 1
MaxBlockLen == 2

InitScopes ==
    { EmptyScope,
      Var("x") :> Num(5),
      Var("x") :> Bool(FALSE),
      (Var("x") :> Num(2)) @@ (Var("y") :> Num(7)) }

InitContexts == UNION {[1..n -> InitScopes] : n \in 0..MaxInitFrames}

Lits == {ENum(1), ENum(3), EBool(TRUE), EBool(FALSE)}

\* right-hand sides: literals, references, an operation, an assignment
Rhs ==
    Lits \cup {EVar("x"), EVar("y"),
               EBinOp(EVar("x"), MathOp("Plus"), ENum(1)),
               EVarOp(EVar("x"), VarOp("Assign"), ENum(10))}

Lets ==
    {ELet(EVar(n), ty, r) : n \in Names, ty \in {"Int32", "Bool"}, r \in Rhs}
      \cup {ELet(ENum(1), "Int32", ENum(1)), ELet(EVar("x"), "Void", ENum(1))}

VarOps ==
    {EVarOp(EVar(n), o, r) :
        n \in Names, o \in {VarOp(t) : t \in VarToken}, r \in Rhs}
      \cup {EVarOp(ENum(1), VarOp("Assign"), ENum(1)),
            EVarOp(EVar("x"), MathOp("Plus"), ENum(1))}

\* operations whose operands have effects, fail or disagree in kind
BinOps ==
    {EBinOp(EVarOp(EVar("x"), VarOp("Assign"), l), BoolOp(t),
            EVarOp(EVar("y"), VarOp("Assign"), r)) :
        l \in {EBool(TRUE), EBool(FALSE)}, t \in {"And", "Or"},
        r \in {EBool(TRUE)}}
      \cup {EBinOp(EVar("x"), o, r) :
              o \in {MathOp("Plus"), RelOp("Leq"), BoolOp("And")},
              r \in {ENum(3), EBool(TRUE), EVar("y")}}
      \cup {EBinOp(EVarOp(EVar("x"), VarOp("Assign"), EBool(FALSE)), BoolOp("And"),
                   EVarOp(EVar("x"), VarOp("Assign"), EBool(TRUE))),
            EBinOp(EVarOp(EVar("x"), VarOp("Assign"), ENum(10)), MathOp("Plus"),
                   EVar("x")),
            EBinOp(EVar("x"), MathOp("Plus"),
                   EVarOp(EVar("x"), VarOp("Assign"), ENum(10)))}

\* the statements blocks are made of
BlockStmts ==
    { ELet(EVar("x"), "Int32", ENum(1)),
      EVar("x"),
      EVar("y"),
      EVarOp(EVar("x"), VarOp("PlusEq"), ENum(3)),
      EVarOp(EVar("y"), VarOp("Assign"), ENum(3)),
      EBinOp(ENum(1), MathOp("Plus"), EBool(TRUE)),
      EIf(EBool(TRUE), <<ELet(EVar("y"), "Int32", ENum(3))>>),
      EIf(EBool(TRUE), <<EVar("x")>>) }

Blocks == UNION {[1..n -> BlockStmts] : n \in 0..MaxBlockLen}

Conds == {EBool(TRUE), EBool(FALSE), ENum(1), EVar("x"),
          EBinOp(EVar("x"), RelOp("Leq"), ENum(3))}

Ifs == {EIf(c, b) : c \in Conds, b \in Blocks}

\* the nodes eval_expr has no arm for
Others ==
    {EIfElse(EBool(TRUE), <<ENum(1)>>), EWhile(EBool(FALSE), <<ENum(1)>>),
     EWhile(EBinOp(EVar("x"), RelOp("Geq"), ENum(1)),
            <<EVarOp(EVar("x"), VarOp("MinEq"), ENum(1))>>),
     EReturn(ENum(1))}

Exprs == Rhs \cup Lets \cup VarOps \cup BinOps \cup Ifs \cup Others

Init ==
    /\ context \in InitContexts
    /\ overflow_checks \in BOOLEAN
    /\ op = "init"
    /\ arg = NoArg
    /\ pre = <<>>
    /\ res = Unit

Next ==
    \/ \E e \in Exprs : op = "init" /\ EvalExpr(e)
    \/ \E b \in Blocks : op = "init" /\ EvalBlock(b)

Spec == Init /\ [][Next]_vars

----------------------------------------------------------------------------
(* The driver of the operator tables: one binary operation on two          *)
(* literals, or one variable operation with a literal on a bound integer   *)

I32Samples == {MinI32, -7, -1, 0, 1, 2, 7, MaxI32}

Operands == {ENum(n) : n \in I32Samples} \cup {EBool(b) : b \in BOOLEAN}

InitBin ==
    /\ overflow_checks \in BOOLEAN
    /\ op = "init"
    /\ \/ /\ context = <<>>
          /\ arg \in {[NoArg EXCEPT !.e = EBinOp(l, o, r)] :
                         l \in Operands, o \in Op, r \in Operands}
       \/ /\ context \in {<<Var("x") :> Num(l)>> : l \in I32Samples}
          /\ arg \in {[NoArg EXCEPT !.e = EVarOp(EVar("x"), VarOp(t), ENum(r))] :
                         t \in VarToken, r \in I32Samples}
    /\ pre = <<>>
    /\ res = Unit

NextBin == op = "init" /\ EvalExpr(arg.e)

SpecBin == InitBin /\ [][NextBin]_vars

----------------------------------------------------------------------------
(* The driver of call sequences: eval_expr and eval_block, again and       *)
(* again on the Context the call before left, until a call aborts.  No     *)
(* block drops its frame, so calls stop once the Context has more than     *)
(* MaxSeqFrames frames.                                                    *)

MaxSeqFrames == 2

SeqContexts ==
    { <<>>, <<EmptyScope>>, <<Var("x") :> Num(1)>>, <<Var("x") :> Bool(TRUE)>>,
      <<(Var("x") :> Num(1)) @@ (Var("y") :> Bool(TRUE))>> }

SeqExprs ==
    { ENum(1), EBool(TRUE), EVar("x"), EVar("y"),
      ELet(EVar("x"), "Int32", ENum(1)),
      ELet(EVar("y"), "Bool", EBool(TRUE)),
      ELet(EVar("y"), "Int32", EVar("x")),
      EVarOp(EVar("x"), VarOp("Assign"), EVar("y")),
      EVarOp(EVar("x"), VarOp("MinEq"), EVar("x")),
      EVarOp(EVar("y"), VarOp("MulEq"), EVar("x")),
      EBinOp(EVar("x"), RelOp("Leq"), EVar("y")),
      EBinOp(EVar("x"), MathOp("Plus"), ENum(0)),
      EIf(EVar("y"), <<ELet(EVar("x"), "Bool", EVar("y"))>>),
      EWhile(EBool(TRUE), <<EVar("x")>>),
      EReturn(EVar("x")) }

SeqBlocks ==
    { <<>>,
      <<EVar("x")>>,
      <<ELet(EVar("y"), "Int32", EVar("x")),
        EVarOp(EVar("x"), VarOp("Assign"), EVar("y"))>> }

InitSeq ==
    /\ context \in SeqContexts
    /\ overflow_checks \in BOOLEAN
    /\ op = "init"
    /\ arg = NoArg
    /\ pre = <<>>
    /\ res = Unit

NextSeq ==
    \/ \E e \in SeqExprs : Len(context) <= MaxSeqFrames /\ EvalExpr(e)
    \/ \E b \in SeqBlocks : Len(context) <= MaxSeqFrames /\ EvalBlock(b)

SpecSeq == InitSeq /\ [][NextSeq]_vars

----------------------------------------------------------------------------
(* What the properties below read off a recorded call                      *)

\* the frame of c that a search from the innermost frame outward finds k in
FoundIn(c, k) ==
    CHOOSE i \in 1..Len(c) :
        k \in DOMAIN c[i] /\ \A j \in (i + 1)..Len(c) : k \notin DOMAIN c[j]

Bound(c, k) == \E i \in 1..Len(c) : k \in DOMAIN c[i]

\* c1 differs from c0 in nothing but the value of k in frame i, which is v
OnlyChanged(c0, c1, i, k, v) ==
    /\ Len(c1) = Len(c0)
    /\ \A j \in 1..Len(c0) : DOMAIN c1[j] = DOMAIN c0[j]
    /\ \A j \in 1..Len(c0) : \A n \in DOMAIN c0[j] :
          c1[j][n] = IF j = i /\ n = k THEN v ELSE c0[j][n]

CalledEvalExpr(kind) == op = "eval_expr" /\ arg.e.e = kind

\* the conditional e, evaluated on c, takes its block
TakesBlock(e, c) == e.e = "If" /\ eval_expr(e.cond, c).res = Ok(Bool(TRUE))

\* statement i of the block of the recorded eval_block call: its result and
\* the Context it left, as the loop of eval_block reaches it
StmtOut(i) ==
    eval_block_loop(SubSeq(arg.block, 1, i), 1,
                    Err("NotFound", "No expressions found."), new_scope(pre))

----------------------------------------------------------------------------
(* C1: eval_block, and the block of a conditional whose condition is true, *)
(* returns (with a value or with a failure) with as many frames in the     *)
(* Context as there were before the call.                                  *)
C1_BlockReleasesItsFrame ==
    ( /\ op = "eval_block" \/ (op = "eval_expr" /\ TakesBlock(arg.e, pre))
      /\ ~IsPanic(res) )
    => Len(context) = Len(pre)

(* C2: when statement i is the first statement of a block to fail,         *)
(* eval_block returns the failure of statement i, and the frames that      *)
(* existed before the call are as statement i left them: no later          *)
(* statement has acted on them.                                            *)
C2_BlockHaltsAtFirstFailure ==
    op = "eval_block" =>
        \A i \in 1..Len(arg.block) :
            ( /\ IsErr(StmtOut(i).res)
              /\ \A j \in 1..(i - 1) : IsOk(StmtOut(j).res) )
            => /\ res = StmtOut(i).res
               /\ SubSeq(context, 1, Len(pre)) = SubSeq(StmtOut(i).ctx, 1, Len(pre))

(* C3: a variable declared in the block of a taken conditional is found by *)
(* the next statement of that block and by a block nested in it; once the  *)
(* conditional has finished, a reference to the name in the enclosing      *)
(* block fails with NotFound when no enclosing frame binds the name.       *)
C3_DeclaredInBlockThenGone ==
    /\ ( /\ op = "eval_expr" /\ TakesBlock(arg.e, pre)
         /\ Len(arg.e.block) = 2
         /\ arg.e.block[1].e = "Let"
         /\ arg.e.block[1].var.e = "Var"
         /\ arg.e.block[1].expr.e = "Num"
         /\ arg.e.block[2] \in
               { EVar(arg.e.block[1].var.s),
                 EIf(EBool(TRUE), <<EVar(arg.e.block[1].var.s)>>) } )
       => res = Ok(Num(arg.e.block[1].expr.n))
    /\ ( /\ op = "eval_block"
         /\ Len(arg.block) = 2
         /\ TakesBlock(arg.block[1], new_scope(pre))
         /\ Len(arg.block[1].block) = 1
         /\ arg.block[1].block[1].e = "Let"
         /\ arg.block[1].block[1].var.e = "Var"
         /\ arg.block[1].block[1].expr.e = "Num"
         /\ arg.block[2] = EVar(arg.block[1].block[1].var.s)
         /\ ~Bound(pre, Var(arg.block[1].block[1].var.s)) )
       => Failed(res, "NotFound")

(* C4: update_var, and a plain assignment of a literal to a name, fails    *)
(* with NotFound and leaves the Context as it was when no frame binds the  *)
(* name; otherwise it returns the value and changes nothing but the value  *)
(* of the name in the innermost frame that binds it.                       *)
C4_Target ==
    IF op = "update_var" THEN arg.key ELSE Var(arg.e.var.s)
C4_Value ==
    IF op = "update_var" THEN arg.val
    ELSE IF arg.e.expr.e = "Num" THEN Num(arg.e.expr.n) ELSE Bool(arg.e.expr.b)
C4_IsAssignment ==
    \/ op = "update_var"
    \/ /\ CalledEvalExpr("VarOp")
       /\ arg.e.op = VarOp("Assign")
       /\ arg.e.var.e = "Var"
       /\ arg.e.expr.e \in {"Num", "Bool"}

C4_AssignNeverCreates ==
    C4_IsAssignment =>
        IF ~Bound(pre, C4_Target)
        THEN Failed(res, "NotFound") /\ context = pre
        ELSE /\ res = Ok(C4_Value)
             /\ OnlyChanged(pre, context, FoundIn(pre, C4_Target), C4_Target, C4_Value)

\* an assignment node reached a binding of an outer frame past an inner
\* frame that does not bind the name, and changed its value
C4_Witness ==
    /\ CalledEvalExpr("VarOp") /\ C4_IsAssignment
    /\ Len(pre) = 2
    /\ C4_Target \in DOMAIN pre[1] /\ C4_Target \notin DOMAIN pre[2]
    /\ pre[1][C4_Target] # C4_Value
    /\ context[1][C4_Target] = C4_Value

(* C5: insert_to_current_scope on a Context with a frame writes the name   *)
(* in the innermost frame only (a second declaration in the frame replaces *)
(* the first, outer frames keep their bindings of the name), get_val then  *)
(* yields the declared value, and after drop_current_scope get_val yields  *)
(* for every name what the frames below the dropped one bind it to.        *)
C5_Below(k) ==
    IF Bound(SubSeq(pre, 1, Len(pre) - 1), k)
    THEN Ok(pre[FoundIn(SubSeq(pre, 1, Len(pre) - 1), k)][k])
    ELSE Err("NotFound", "Key not found in context scopes")

C5_DeclareWritesInnermost ==
    /\ (op = "insert_to_current_scope" /\ Len(pre) > 0) =>
          /\ IsOk(res)
          /\ Len(context) = Len(pre)
          /\ \A i \in 1..(Len(pre) - 1) : context[i] = pre[i]
          /\ DOMAIN context[Len(pre)] = DOMAIN pre[Len(pre)] \cup {arg.key}
          /\ \A k \in DOMAIN context[Len(pre)] :
                context[Len(pre)][k] =
                    IF k = arg.key THEN arg.val ELSE pre[Len(pre)][k]
          /\ get_val(context, arg.key) = Ok(arg.val)
    /\ (op = "drop_current_scope" /\ Len(pre) > 0) =>
          /\ Len(context) = Len(pre) - 1
          /\ \A k \in Keys : get_val(context, k) = C5_Below(k)

\* a name is declared a second time in the inner frame, with another value,
\* while the outer frame binds it too
C5_Witness ==
    /\ op = "insert_to_current_scope"
    /\ Len(pre) = 2
    /\ arg.key \in DOMAIN pre[1] /\ arg.key \in DOMAIN pre[2]
    /\ pre[2][arg.key] # arg.val
    /\ pre[1][arg.key] # arg.val
    /\ context[1][arg.key] = pre[1][arg.key]
    /\ context[2][arg.key] = arg.val

(* C6: with x bound to Num(a) and a right-hand side that is a literal or a *)
(* reference worth Num(b), x += e, x -= e and x *= e return Num(a+b),      *)
(* Num(a-b), Num(a*b) (when that is an i32) and change nothing but the     *)
(* value of x in the innermost frame that binds x; this holds as well when *)
(* the statement is the only one of a block, whose own fresh frame then    *)
(* stays empty.                                                            *)
C6_IsCompound(e) ==
    /\ e.e = "VarOp"
    /\ e.var.e = "Var"
    /\ e.op \in {VarOp("PlusEq"), VarOp("MinEq"), VarOp("MulEq")}

C6_RhsIsNum(x, c) ==
    \/ x.e = "Num"
    \/ x.e = "Var" /\ Bound(c, Var(x.s)) /\ c[FoundIn(c, Var(x.s))][Var(x.s)].tag = "Num"

C6_Rhs(x, c) == IF x.e = "Num" THEN x.n ELSE c[FoundIn(c, Var(x.s))][Var(x.s)].v

C6_Fits(o, a, b) ==
    CASE o = VarOp("PlusEq") -> ~AddOverflows(a, b)
      [] o = VarOp("MinEq")  -> ~SubOverflows(a, b)
      [] o = VarOp("MulEq")  -> ~MulOverflows(a, b)

C6_Combined(o, a, b) ==
    CASE o = VarOp("PlusEq") -> a + b
      [] o = VarOp("MinEq")  -> a - b
      [] o = VarOp("MulEq")  -> a * b

C6_Holds(e, c0, c1, r) ==
    LET x == Var(e.var.s) IN
    ( /\ Bound(c0, x)
      /\ c0[FoundIn(c0, x)][x].tag = "Num"
      /\ C6_RhsIsNum(e.expr, c0)
      /\ C6_Fits(e.op, c0[FoundIn(c0, x)][x].v, C6_Rhs(e.expr, c0)) )
    => LET new == Num(C6_Combined(e.op, c0[FoundIn(c0, x)][x].v, C6_Rhs(e.expr, c0)))
       IN  /\ r = Ok(new)
           /\ OnlyChanged(c0, c1, FoundIn(c0, x), x, new)

C6_CompoundAssign ==
    /\ (op = "eval_expr" /\ C6_IsCompound(arg.e))
          => C6_Holds(arg.e, pre, context, res)
    /\ (op = "eval_block" /\ Len(arg.block) = 1 /\ C6_IsCompound(arg.block[1]))
          => C6_Holds(arg.block[1], new_scope(pre), context, res)

\* x declared 5 in the enclosing frame, x += 3 in a block: 8, stored in the
\* enclosing frame, the frame of the block left empty
C6_Witness ==
    /\ op = "eval_block"
    /\ arg.block = <<EVarOp(EVar("x"), VarOp("PlusEq"), ENum(3))>>
    /\ pre = <<Var("x") :> Num(5)>>
    /\ res = Ok(Num(8))
    /\ context = <<Var("x") :> Num(8), EmptyScope>>

(* C7: a / b and a % b on Num operands return the failure DivisionByZero   *)
(* when b = 0, and otherwise Num of the quotient truncated toward zero,    *)
(* respectively of its remainder.                                          *)
C7_DivisionByZeroIsTyped ==
    ( /\ CalledEvalExpr("BinOp")
      /\ arg.e.l.e = "Num" /\ arg.e.r.e = "Num"
      /\ arg.e.op \in {MathOp("Division"), MathOp("Modulo")} )
    => IF arg.e.r.n = 0
       THEN Failed(res, "DivisionByZero")
       ELSE (arg.e.l.n = MinI32 /\ arg.e.r.n = -1)
            \/ res = Ok(Num(IF arg.e.op = MathOp("Division")
                            THEN TruncDiv(arg.e.l.n, arg.e.r.n)
                            ELSE TruncRem(arg.e.l.n, arg.e.r.n)))

(* C8: on Bool operands, and / or / < / > / = / != yield the Bool of       *)
(* standard logic with false < true, and not yields a Bool, the negation   *)
(* of its operand, never a failure.                                        *)
C8_BoolTables ==
    ( /\ CalledEvalExpr("BinOp")
      /\ arg.e.l.e = "Bool" /\ arg.e.r.e = "Bool" )
    => LET l == arg.e.l.b
           r == arg.e.r.b
           o == arg.e.op
       IN  /\ o = BoolOp("And")  => res = Ok(Bool(l /\ r))
           /\ o = BoolOp("Or")   => res = Ok(Bool(l \/ r))
           /\ o = BoolOp("Not")  => IsOk(res) /\ res.v \in {Bool(~l), Bool(~r)}
           /\ o = RelOp("Leq")   => res = Ok(Bool(l = FALSE /\ r = TRUE))
           /\ o = RelOp("Geq")   => res = Ok(Bool(l = TRUE /\ r = FALSE))
           /\ o = RelOp("Equal") => res = Ok(Bool(l <=> r))
           /\ o = RelOp("Neq")   => res = Ok(Bool(~(l <=> r)))

(* C9: a conditional whose condition evaluates to Bool(false) without      *)
(* touching the Context returns without a failure and leaves the Context   *)
(* exactly as it was, whatever its block holds.                            *)
C9_SkipsBlock ==
    /\ CalledEvalExpr("If")
    /\ eval_expr(arg.e.cond, pre) = Out(Ok(Bool(FALSE)), pre)

C9_FalseConditionalHasNoEffect ==
    C9_SkipsBlock => context = pre /\ IsOk(res)

\* the condition is a comparison that comes out false, the skipped block
\* starts with a declaration
C9_Witness ==
    /\ C9_SkipsBlock
    /\ arg.e.cond.e = "BinOp"
    /\ Len(arg.e.block) = 2
    /\ arg.e.block[1].e = "Let"
    /\ Len(pre) = 1
    /\ context = pre

(* C10: insert_to_current_scope on a Context with no frame, and so a       *)
(* declaration evaluated on such a Context, returns the failure            *)
(* InternalError and leaves the Context empty.                             *)
C10_DeclareOnEmptyIsTyped ==
    ( /\ op = "insert_to_current_scope"
         \/ (CalledEvalExpr("Let") /\ arg.e.var.e = "Var")
      /\ pre = <<>> )
    => Failed(res, "InternalError") /\ context = <<>>

(* C11: a conversion aimed at the wrong variant is the failure             *)
(* TypeMismatch and leaves the Context as it was: a compound assignment    *)
(* whose target is bound to a Bool or whose right-hand side is a Bool      *)
(* literal, and a declaration or variable operation whose target node is   *)
(* not a variable reference.                                               *)
C11_WrongVariant ==
    \/ /\ op = "eval_expr" /\ C6_IsCompound(arg.e)
       /\ arg.e.expr.e \in {"Num", "Bool"}
       /\ Bound(pre, Var(arg.e.var.s))
       /\ \/ pre[FoundIn(pre, Var(arg.e.var.s))][Var(arg.e.var.s)].tag = "Bool"
          \/ arg.e.expr.e = "Bool"
    \/ /\ CalledEvalExpr("VarOp") /\ arg.e.var.e # "Var"
    \/ /\ CalledEvalExpr("Let") /\ arg.e.var.e # "Var"

C11_WrongVariantIsTypeMismatch ==
    C11_WrongVariant => Failed(res, "TypeMismatch") /\ context = pre

(* C12: get_val, and the evaluation of a variable reference, returns the   *)
(* value the name has in the innermost frame that binds it, fails with     *)
(* NotFound when no frame binds it, and leaves the Context as it was.      *)
C12_Key == IF op = "get_val" THEN arg.key ELSE Var(arg.e.s)

C12_LookupInnermostFirst ==
    (op = "get_val" \/ CalledEvalExpr("Var")) =>
        /\ context = pre
        /\ IF Bound(pre, C12_Key)
           THEN res = Ok(pre[FoundIn(pre, C12_Key)][C12_Key])
           ELSE Failed(res, "NotFound")

\* a reference to a name that two frames bind to different values yields
\* the inner one
C12_Witness ==
    /\ CalledEvalExpr("Var")
    /\ Len(pre) = 2
    /\ C12_Key \in DOMAIN pre[1] /\ C12_Key \in DOMAIN pre[2]
    /\ pre[1][C12_Key] # pre[2][C12_Key]
    /\ res = Ok(pre[2][C12_Key])

(* C13: a binary operation evaluates its left operand, then its right     *)
(* operand, whatever the left one yields: in (a = l) and (b = r) and       *)
(* (a = l) or (b = r) both assignments happen (the right one last), and    *)
(* the right operand of (x = k) + x reads the k the left operand wrote,    *)
(* while the left operand of x + (x = k) reads the value from before.      *)
C13_IsAssignLit(e, kind) ==
    /\ e.e = "VarOp" /\ e.op = VarOp("Assign")
    /\ e.var.e = "Var" /\ e.expr.e = kind

C13_BothAssign ==
    /\ CalledEvalExpr("BinOp")
    /\ arg.e.op \in {BoolOp("And"), BoolOp("Or")}
    /\ C13_IsAssignLit(arg.e.l, "Bool") /\ C13_IsAssignLit(arg.e.r, "Bool")
    /\ Bound(pre, Var(arg.e.l.var.s)) /\ Bound(pre, Var(arg.e.r.var.s))

C13_LeftThenRight ==
    /\ C13_BothAssign =>
          LET a == Var(arg.e.l.var.s)
              b == Var(arg.e.r.var.s)
              l == arg.e.l.expr.b
              r == arg.e.r.expr.b
          IN  /\ res = Ok(Bool(IF arg.e.op = BoolOp("And") THEN l /\ r ELSE l \/ r))
              /\ context[FoundIn(pre, b)][b] = Bool(r)
              /\ a # b => context[FoundIn(pre, a)][a] = Bool(l)
    /\ ( /\ CalledEvalExpr("BinOp") /\ arg.e.op = MathOp("Plus")
         /\ C13_IsAssignLit(arg.e.l, "Num")
         /\ arg.e.r = arg.e.l.var
         /\ Bound(pre, Var(arg.e.l.var.s)) )
       => res = Ok(Num(arg.e.l.expr.n + arg.e.l.expr.n))
    /\ ( /\ CalledEvalExpr("BinOp") /\ arg.e.op = MathOp("Plus")
         /\ C13_IsAssignLit(arg.e.r, "Num")
         /\ arg.e.l = arg.e.r.var
         /\ Bound(pre, Var(arg.e.r.var.s))
         /\ pre[FoundIn(pre, Var(arg.e.r.var.s))][Var(arg.e.r.var.s)].tag = "Num" )
       => /\ res = Ok(Num(pre[FoundIn(pre, Var(arg.e.r.var.s))][Var(arg.e.r.var.s)].v
                          + arg.e.r.expr.n))
          /\ context[FoundIn(pre, Var(arg.e.r.var.s))][Var(arg.e.r.var.s)]
                = Num(arg.e.r.expr.n)

\* (x = false) and (y = true): the result is false and y is true afterwards
C13_Witness ==
    /\ C13_BothAssign
    /\ arg.e.op = BoolOp("And")
    /\ arg.e.l.expr.b = FALSE /\ arg.e.r.expr.b = TRUE
    /\ arg.e.l.var.s # arg.e.r.var.s
    /\ pre[1][Var(arg.e.r.var.s)] # Bool(TRUE)
    /\ context[1][Var(arg.e.r.var.s)] = Bool(TRUE)
    /\ res = Ok(Bool(FALSE))

(* C14: a binary operation on two literals of different kinds (Num and     *)
(* Bool, either order) fails with TypeMismatch under every operator; on    *)
(* two Bool literals an arithmetic or variable operator, and on two Num    *)
(* literals a boolean or variable operator, fails with WrongOp.            *)
C14_Kinds == <<arg.e.l.e, arg.e.r.e>>

C14_OutsideTable ==
    \/ /\ C14_Kinds = <<"Bool", "Bool">>
       /\ arg.e.op \in {MathOp(t) : t \in MathToken} \cup {VarOp(t) : t \in VarToken}
    \/ /\ C14_Kinds = <<"Num", "Num">>
       /\ arg.e.op \in {BoolOp(t) : t \in BoolToken} \cup {VarOp(t) : t \in VarToken}

C14_KindAndTable ==
    CalledEvalExpr("BinOp") =>
        /\ C14_Kinds \in {<<"Num", "Bool">>, <<"Bool", "Num">>}
              => Failed(res, "TypeMismatch")
        /\ C14_OutsideTable => Failed(res, "WrongOp")

\* and on two integers
C14_Witness ==
    /\ CalledEvalExpr("BinOp")
    /\ C14_Kinds = <<"Num", "Num">> /\ arg.e.op = BoolOp("And")
    /\ Failed(res, "WrongOp")

(* C15: a declaration of a name with a literal initializer, in a context   *)
(* that has a frame, fails with TypeMismatch and leaves the context as it  *)
(* was when the literal's kind is not the declared type (a Num declared    *)
(* Bool, a Bool declared Int32, anything declared Void); when the kind is  *)
(* the declared type the name is bound to the value in the innermost       *)
(* frame and the value is returned.                                        *)
C15_Declares ==
    /\ CalledEvalExpr("Let")
    /\ arg.e.var.e = "Var"
    /\ arg.e.expr.e \in {"Num", "Bool"}
    /\ Len(pre) > 0

C15_Value == IF arg.e.expr.e = "Num" THEN Num(arg.e.expr.n) ELSE Bool(arg.e.expr.b)

C15_Matches ==
    \/ arg.e.ty = "Int32" /\ arg.e.expr.e = "Num"
    \/ arg.e.ty = "Bool" /\ arg.e.expr.e = "Bool"

C15_DeclaredTypeIsChecked ==
    C15_Declares =>
        IF C15_Matches
        THEN /\ res = Ok(C15_Value)
             /\ context = [pre EXCEPT ![Len(pre)] =
                              ScopeInsert(@, Var(arg.e.var.s), C15_Value)]
        ELSE Failed(res, "TypeMismatch") /\ context = pre

(* C16: a conditional whose condition evaluates to a Num fails with        *)
(* WrongType, and the context is the one the condition left, with as many  *)
(* frames as before (no statement of the block has run); a conditional     *)
(* whose condition evaluates to Bool(true), with a block of at least one   *)
(* statement none of which aborts, returns the result of the last          *)
(* statement, each statement having run on the context the one before it   *)
(* left, the first on the condition's context with one more frame.         *)
RECURSIVE C16_After(_, _, _)
\* the Context after statements 1..i of block, run in order from c
C16_After(block, i, c) ==
    IF i = 0 THEN c ELSE eval_expr(block[i], C16_After(block, i - 1, c)).ctx

C16_Cond == eval_expr(arg.e.cond, pre)

C16_NumCondition ==
    CalledEvalExpr("If") /\ IsOk(C16_Cond.res) /\ C16_Cond.res.v.tag = "Num"

C16_TrueCondition ==
    /\ CalledEvalExpr("If") /\ C16_Cond.res = Ok(Bool(TRUE))
    /\ Len(arg.e.block) > 0 /\ ~IsPanic(res)

C16_ConditionalDispatch ==
    /\ C16_NumCondition =>
          /\ Failed(res, "WrongType")
          /\ context = C16_Cond.ctx /\ Len(context) = Len(pre)
    /\ C16_TrueCondition =>
          LET n    == Len(arg.e.block)
              last == eval_expr(arg.e.block[n],
                                C16_After(arg.e.block, n - 1, new_scope(C16_Cond.ctx)))
          IN  res = last.res /\ context = last.ctx

\* the condition is a variable bound to a Num, the block would declare x
C16_Witness ==
    /\ C16_NumCondition
    /\ arg.e.cond.e = "Var"
    /\ Len(arg.e.block) = 2 /\ arg.e.block[1].e = "Let"
    /\ Failed(res, "WrongType")
    /\ context = pre

(* C17: a compound assignment x op= (x = k) to a bound x, k an integer     *)
(* literal, combines the k its right-hand side wrote with k, not the       *)
(* value x had before: it returns k op k and leaves x bound to it in the   *)
(* frame x was found in (x += (x = 10) gives 20 whatever x was).           *)
C17_RhsAssignsTarget ==
    /\ op = "eval_expr" /\ C6_IsCompound(arg.e)
    /\ C13_IsAssignLit(arg.e.expr, "Num")
    /\ arg.e.expr.var = arg.e.var
    /\ Bound(pre, Var(arg.e.var.s))

C17_RhsBeforeTargetRead ==
    C17_RhsAssignsTarget =>
        LET x   == Var(arg.e.var.s)
            k   == arg.e.expr.expr.n
            new == Num(C6_Combined(arg.e.op, k, k))
        IN  /\ res = Ok(new)
            /\ OnlyChanged(pre, context, FoundIn(pre, x), x, new)

\* x += (x = 10) with x bound to 5 or 2: 20, not 15 or 12
C17_Witness ==
    /\ C17_RhsAssignsTarget
    /\ arg.e.op = VarOp("PlusEq")
    /\ pre[1][Var(arg.e.var.s)].tag = "Num"
    /\ pre[1][Var(arg.e.var.s)] # Num(10)
    /\ res = Ok(Num(20))
    /\ context[1][Var(arg.e.var.s)] = Num(20)

(* C18: a loop whose condition evaluates to a Bool is run: it does not     *)
(* fail with NotImplemented, it leaves as many frames as it found, and     *)
(* when it ends without a failure its condition is false on the context    *)
(* it leaves (while x > 1 { x -= 1 } leaves x at 1; a loop whose           *)
(* condition is false at once leaves the context as it was).               *)
C18_Cond == eval_expr(arg.e.cond, pre)

C18_BoolCondition ==
    CalledEvalExpr("While") /\ IsOk(C18_Cond.res) /\ C18_Cond.res.v.tag = "Bool"

C18_LoopRunsUntilFalse ==
    C18_BoolCondition =>
        /\ ~Failed(res, "NotImplemented")
        /\ Len(context) = Len(pre)
        /\ IsOk(res) => eval_expr(arg.e.cond, context).res = Ok(Bool(FALSE))
        /\ C18_Cond.res = Ok(Bool(FALSE)) => context = pre

(* C19: after any sequence of eval_expr and eval_block calls that starts   *)
(* from a Context whose bound values are all Num or Bool, every value      *)
(* bound in every frame is a Num or a Bool, and so is every value a call   *)
(* returns: no Var is ever stored or returned.                             *)
C19_IsPrimitive(v) == v.tag \in {"Num", "Bool"}

C19_NoVarStoredOrReturned ==
    /\ \A i \in 1..Len(context) : \A k \in DOMAIN context[i] :
          C19_IsPrimitive(context[i][k])
    /\ (op \in {"eval_expr", "eval_block"} /\ IsOk(res)) => C19_IsPrimitive(res.v)

\* a declaration initialized by a reference, made in the second frame: a
\* block was evaluated by a call before
C19_Witness ==
    /\ CalledEvalExpr("Let") /\ arg.e.expr.e = "Var"
    /\ Len(pre) = 2 /\ pre[2] # EmptyScope
    /\ IsOk(res)
    /\ context[2][Var(arg.e.var.s)] = res.v
    /\ context # pre

(* C20: +, -, *, / and % on two integer literals (the divisor not 0) and   *)
(* +=, -=, *= with an integer literal on a name bound to an integer never  *)
(* abort: they return a Num within the 32-bit signed range or a typed      *)
(* failure, and every value the Context holds afterwards is within that    *)
(* range.                                                                  *)
C20_Arithmetic ==
    /\ CalledEvalExpr("BinOp")
    /\ arg.e.l.e = "Num" /\ arg.e.r.e = "Num"
    /\ arg.e.op \in {MathOp(t) : t \in MathToken}
    /\ arg.e.op \in {MathOp("Division"), MathOp("Modulo")} => arg.e.r.n # 0

C20_Compound ==
    /\ op = "eval_expr" /\ C6_IsCompound(arg.e)
    /\ arg.e.expr.e = "Num"
    /\ Bound(pre, Var(arg.e.var.s))
    /\ pre[FoundIn(pre, Var(arg.e.var.s))][Var(arg.e.var.s)].tag = "Num"

C20_InRange(v) == v.tag = "Num" => (MinI32 <= v.v /\ v.v <= MaxI32)

C20_ArithmeticStaysInRange ==
    (C20_Arithmetic \/ C20_Compound) =>
        /\ ~IsPanic(res)
        /\ IsOk(res) => (res.v.tag = "Num" /\ C20_InRange(res.v))
        /\ \A i \in 1..Len(context) : \A k \in DOMAIN context[i] :
              C20_InRange(context[i][k])

=============================================================================
